---- MODULE Spec2Model ----
(***************************************************************************)
(* QueryLite: the natural-language query execution pipeline.               *)
(*                                                                         *)
(* The module models                                                       *)
(*   - the request handler execute_natural_language_query                  *)
(*     (backend/app/routers/query.py) as a sequence of steps,              *)
(*   - the Safety Gate is_safe_sql (middleware/read_only_enforcer.py),     *)
(*   - QueryExecutor.execute_query and the per-backend connectors          *)
(*     (services/query_executor.py, services/connectors/*.py),             *)
(*   - the Self-Healer (services/query_healer.py),                         *)
(*   - the Result Cache (services/cache_service.py),                       *)
(*   - the background job runner (services/background_executor.py).       *)
(*                                                                         *)
(* Spec is the pipeline; CacheSpec exercises the cache service, ConnSpec   *)
(* the connector classes, ChartSpec the chart recommender, ValidatorSpec   *)
(* the two validators, OrchestratorSpec LLMService.generate_sql and        *)
(* JobSpec the job runner, each with callers of its own.                   *)
(*                                                                         *)
(* A query text is a sequence of tokens: words, the punctuation ";" and    *)
(* the blank " ".  Words never contain blanks and no identifier used here  *)
(* has a keyword as a prefix, so Python's substring tests on the text are  *)
(* tests on contiguous token subsequences.                                 *)
(*                                                                         *)
(* Python values stored in result cells are written as strings; PyType     *)
(* gives the Python type each stands for.                                  *)
(*                                                                         *)
(* Names the handler reads but the sources at hand do not declare (the     *)
(* keyword arguments of the QueryExecutor constructor,                     *)
(* settings.enable_pii_masking, the OpenAI provider) are taken to be       *)
(* declared as the handler uses them.                                      *)
(***************************************************************************)
EXTENDS Integers, Sequences, FiniteSets, TLC

(***************************************************************************)
(* Bounds of the model.                                                    *)
(***************************************************************************)
MaxRequests == 2
MaxTicks == 1

(***************************************************************************)
(* Program constants.                                                      *)
(***************************************************************************)
confidence_threshold == 70      \* 0.7, confidences are in hundredths
default_ttl == 3600
query_timeout_seconds == 30

(***************************************************************************)
(* Query texts.                                                            *)
(***************************************************************************)
T_empty  == << >>
T_sel    == <<"SELECT", " ", "x">>
T_lead   == <<" ", "SELECT", " ", "x">>
T_lower  == <<"select", " ", "x">>
T_drop   == <<"DROP", " ", "TABLE", " ", "x">>
T_glued  == <<"SELECT", " ", "x", ";", "DROP", " ", "TABLE", " ", "x">>
T_spaced == <<"SELECT", " ", "x", ";", " ", "DROP", " ", "TABLE", " ", "x">>
T_twosel == <<"SELECT", " ", "x", ";", " ", "SELECT", " ", "y">>
T_grant  == <<"SELECT", " ", "x", ";", " ", "GRANT", " ", "x">>
T_ident  == <<"x">>
T_blank  == <<" ">>

\* str.upper() on one token
UpperTok(t) == IF t = "select" THEN "SELECT" ELSE t

\* str.upper()
Upper(s) == [i \in 1..Len(s) |-> UpperTok(s[i])]

RECURSIVE LStrip(_)
LStrip(s) == IF s # << >> /\ Head(s) = " " THEN LStrip(Tail(s)) ELSE s

RECURSIVE RStrip(_)
RStrip(s) == IF s # << >> /\ s[Len(s)] = " " THEN RStrip(SubSeq(s, 1, Len(s) - 1)) ELSE s

\* str.strip()
Strip(s) == RStrip(LStrip(s))

\* f" {word} " in f" {s} "
ContainsWord(s, word) ==
    LET p == <<" ">> \o s \o <<" ">>
    IN \E i \in 1..(Len(p) - 2) : p[i] = " " /\ p[i + 1] = word /\ p[i + 2] = " "

\* s.startswith(word)
StartsWith(s, word) == s # << >> /\ s[1] = word

(***************************************************************************)
(* sqlparse.parse: the statement splitter.  A statement ends at ";", the   *)
(* blanks that follow the ";" still belong to it, and a pending statement  *)
(* made of blanks only is not yielded.                                     *)
(***************************************************************************)
RECURSIVE SplitFrom(_, _, _, _)
SplitFrom(s, i, cur, consume_ws) ==
    IF i > Len(s)
    THEN IF cur # << >> /\ (\E k \in 1..Len(cur) : cur[k] # " ") THEN <<cur>> ELSE << >>
    ELSE IF consume_ws /\ s[i] # " "
         THEN <<cur>> \o SplitFrom(s, i + 1, <<s[i]>>, s[i] = ";")
         ELSE SplitFrom(s, i + 1, Append(cur, s[i]), consume_ws \/ s[i] = ";")

Parse(s) == SplitFrom(s, 1, << >>, FALSE)

\* sqlparse Statement.get_type(): the first token that is not a blank,
\* normalised, when it is a DML or DDL keyword, and UNKNOWN otherwise
get_type(stmt) ==
    LET body == LStrip(stmt)
    IN IF body = << >> THEN "UNKNOWN"
       ELSE IF UpperTok(body[1]) \in {"SELECT", "INSERT", "UPDATE", "DELETE",
                                      "DROP", "CREATE", "ALTER"}
            THEN UpperTok(body[1])
       ELSE "UNKNOWN"

(***************************************************************************)
(* The Safety Gate.                                                        *)
(***************************************************************************)
forbidden == {"DROP", "DELETE", "UPDATE", "INSERT", "TRUNCATE", "ALTER", "GRANT", "REVOKE"}

is_safe_sql(sql) ==
    LET parsed == Parse(sql)
    IN /\ parsed # << >>
       /\ \A i \in 1..Len(parsed) : get_type(parsed[i]) = "SELECT"
       /\ \A word \in forbidden :
            ~(ContainsWord(Upper(sql), word) \/ StartsWith(Upper(sql), word))

(***************************************************************************)
(* Errors and engine outcomes.                                             *)
(***************************************************************************)
NoError == [cls |-> "None", msg |-> "", arg |-> ""]

Err(cls, msg, arg) == [cls |-> cls, msg |-> msg, arg |-> arg]

\* result cells: Python values written as strings
PyType(v) ==
    CASE v = "2024-01-01T00:00" -> "datetime"
      [] v = "ChartRecommendation(chart_type='table')" -> "ChartRecommendation"
      [] OTHER -> "str"

Row_email == [x |-> "bob@x.io"]
Row_date  == [x |-> "2024-01-01T00:00"]

ResultSets == { <<Row_email>>, <<Row_date>> }

\* what the backend engine does with a dispatched statement
EngineFailures == {"connect", "sql"}

EngineOutcomes == [ok : {TRUE}, rows : ResultSets, fail : {"none"}]
                  \cup [ok : {FALSE}, rows : {<< >>}, fail : EngineFailures]

(***************************************************************************)
(* QueryExecutor.execute_query                                             *)
(***************************************************************************)
dangerous_patterns == <<"DROP", "DELETE", "UPDATE", "INSERT", "ALTER", "TRUNCATE", "CREATE">>

DangerousHits(sql) ==
    {i \in 1..Len(dangerous_patterns) :
        \/ ContainsWord(Upper(Strip(sql)), dangerous_patterns[i])
        \/ StartsWith(Upper(Strip(sql)), dangerous_patterns[i])}

\* the pre-dispatch security check: the SQLSyntaxError it raises, or NoError
ExecutorRefusal(sql) ==
    LET parsed == Parse(sql)
        hits == DangerousHits(sql)
    IN IF parsed = << >> THEN Err("SQLSyntaxError", "Invalid SQL query", "")
       ELSE IF get_type(parsed[1]) # "SELECT"
            THEN Err("SQLSyntaxError", "Only SELECT statements are allowed", "")
       ELSE IF hits # {}
            THEN Err("SQLSyntaxError", "Dangerous SQL pattern detected: ",
                     dangerous_patterns[CHOOSE i \in hits : \A j \in hits : i <= j])
       ELSE NoError

\* the exception the except clauses make of an engine failure
ExecutorError(fail) ==
    CASE fail = "timeout" -> Err("QueryTimeoutError", "Query exceeded seconds limit", "30")
      [] fail = "connect" -> Err("ConnectionError", "Database connection error: ", "connect")
      [] fail = "sql"     -> Err("SQLSyntaxError", "SQL Error: ", "sql")

\* one call of executor.execute_query(sql), the engine answering with out
execute_query(sql, out) ==
    IF ExecutorRefusal(sql) # NoError
    THEN [ok |-> FALSE, rows |-> << >>, err |-> ExecutorRefusal(sql), dispatched |-> FALSE]
    ELSE IF out.ok
         THEN [ok |-> TRUE, rows |-> out.rows, err |-> NoError, dispatched |-> TRUE]
         ELSE [ok |-> FALSE, rows |-> << >>, err |-> ExecutorError(out.fail), dispatched |-> TRUE]

(***************************************************************************)
(* PIIMasker.mask_results                                                  *)
(***************************************************************************)
mask_results(results, enabled) ==
    IF ~enabled \/ results = << >> THEN results
    ELSE [i \in 1..Len(results) |->
            \* mask_string rewrites the local part of an e-mail address
            [x |-> IF PyType(results[i].x) = "str" /\ results[i].x = "bob@x.io"
                   THEN "b***@x.io"
                   ELSE results[i].x]]

(***************************************************************************)
(* Responses of the handler.                                               *)
(***************************************************************************)
NoResp == [kind |-> "none"]

\* an HTTPException; errors are the error texts its detail quotes
HttpErrorWith(code, detail, errors) ==
    [kind |-> "error", code |-> code, detail |-> detail, errors |-> errors]

HttpError(code, detail) == HttpErrorWith(code, detail, << >>)

QueryResponse(sql_query, results, confidence) ==
    [kind |-> "response",
     sql_query |-> sql_query,
     results |-> results,
     row_count |-> Len(results),
     confidence |-> confidence,
     requires_confirmation |-> FALSE,
     audit_log_id |-> "None",
     job_id |-> 0,
     status |-> "completed",
     is_cached |-> FALSE,
     is_healed |-> FALSE,
     original_error |-> NoError]

\* json.dumps succeeds on a response dict
JsonSerializable(payload) ==
    /\ payload.audit_log_id = "None"
    /\ \A i \in 1..Len(payload.results) : PyType(payload.results[i].x) = "str"

\* json.dumps and json.loads of a dict json.dumps accepts
json_dumps(payload) == [json |-> payload]
json_loads(data) == data.json

(***************************************************************************)
(* RedisCacheService                                                       *)
(***************************************************************************)
\* a key made of the data source alone
generate_key_ds_only(data_source_id, sql) == <<data_source_id, T_empty>>

\* md5 of the stripped text, taken to be free of collisions
generate_key(data_source_id, sql) == <<data_source_id, Strip(sql)>>

\* redis GET: the value of a key that is set and has not expired
RedisNil == [nil |-> TRUE]
RedisGet(store, key, time) ==
    IF key \in DOMAIN store /\ time < store[key].exp THEN store[key].val ELSE RedisNil

\* get_query_result; up is FALSE when the redis call raises.  NoResp is None
get_query_result(store, time, data_source_id, sql, up) ==
    LET data == RedisGet(store, generate_key(data_source_id, sql), time)
    IN IF up /\ data # RedisNil THEN json_loads(data) ELSE NoResp

\* Optional[int] arguments
NoneInt == [given |-> FALSE, v |-> 0]
SomeInt(n) == [given |-> TRUE, v |-> n]

\* ttl or self.default_ttl
EffectiveTtl(ttl) == IF ttl.given /\ ttl.v # 0 THEN ttl.v ELSE default_ttl

\* set_query_result: the store afterwards.  json.dumps raising, the redis
\* call raising (up = FALSE) and redis refusing a non-positive expiry are
\* all swallowed by the except clause
set_query_result(store, time, data_source_id, sql, result, ttl, up) ==
    LET key == generate_key(data_source_id, sql)
    IN IF up /\ JsonSerializable(result) /\ EffectiveTtl(ttl) > 0
       THEN [k \in DOMAIN store \cup {key} |->
                IF k = key THEN [val |-> json_dumps(result), exp |-> time + EffectiveTtl(ttl)]
                ELSE store[k]]
       ELSE store

(***************************************************************************)
(* Inputs of the model.                                                    *)
(***************************************************************************)
DataSources == { [id |-> 1, type |-> "postgresql"], [id |-> 2, type |-> "mongodb"] }

\* the Settings the process may run with: every provider, read-only
\* enforcement and masking each off and on
Deployments ==
    { [enforce_read_only |-> FALSE, llm_provider |-> "openai",    enable_pii_masking |-> FALSE],
      [enforce_read_only |-> TRUE,  llm_provider |-> "openai",    enable_pii_masking |-> FALSE],
      [enforce_read_only |-> FALSE, llm_provider |-> "openai",    enable_pii_masking |-> TRUE],
      [enforce_read_only |-> TRUE,  llm_provider |-> "anthropic", enable_pii_masking |-> FALSE],
      [enforce_read_only |-> FALSE, llm_provider |-> "ollama",    enable_pii_masking |-> FALSE] }

\* what the language model may answer to the orchestrator and to the healer
CandidateTexts == {T_empty, T_sel, T_drop}
HealTexts == {T_empty, T_sel, T_glued}

Confidences == {confidence_threshold - 1, confidence_threshold}

\* how the steps before the orchestrator end
Preludes == {"ok", "not_found", "no_tables", "llm_unconfigured"}

TickSteps == {default_ttl - 1, default_ttl}

(***************************************************************************)
(* State.                                                                  *)
(***************************************************************************)
VARIABLES
    settings,      \* the process-wide Settings object
    now,           \* wall clock, seconds
    ticks,         \* number of clock steps taken
    cache,         \* redis keys query_cache:*, key -> [val, exp]
    jobs,          \* redis keys job_*, job id -> job_info and expiry
    tasks,         \* background tasks spawned, job id -> task
    executor,      \* the QueryExecutor of this request: "none" | "open" | "closed"
    nreq,          \* requests received
    pc,            \* position of the handler
    req,           \* the request in flight and what the prelude produced
    sql,           \* sql_result.sql_query
    first_error,   \* error_msg of the failed first attempt
    fixed,         \* fixed_sql returned by the healer
    exec_result,   \* (results, execution_time) of the successful attempt
    healed,        \* requires_heal_flag
    execLog,       \* calls of executor.execute_query made by this request
    healCalls,     \* calls of query_healer.heal_query made by this request
    cacheSets,     \* calls of cache_service.set_query_result made by this request
    audit,         \* AuditLogger.log_event calls of this request
    resp,          \* what the handler returned or raised
    doneAt         \* time at which it did

vars == <<settings, now, ticks, cache, jobs, tasks, executor, nreq, pc, req, sql,
          first_error, fixed, exec_result, healed, execLog, healCalls, cacheSets,
          audit, resp, doneAt>>

NoExecResult == [ok |-> FALSE, rows |-> << >>, err |-> NoError, dispatched |-> FALSE]

\* no request received yet
InitRest ==
    /\ now = 0
    /\ ticks = 0
    /\ cache = << >>
    /\ jobs = << >>
    /\ tasks = << >>
    /\ executor = "none"
    /\ nreq = 0
    /\ pc = "idle"
    /\ req = [id |-> 0, ds |-> 0, type |-> "none", run_async |-> FALSE,
              candidate |-> T_empty, confidence |-> 0, audit_ok |-> FALSE]
    /\ sql = T_empty
    /\ first_error = NoError
    /\ fixed = T_empty
    /\ exec_result = NoExecResult
    /\ healed = FALSE
    /\ execLog = << >>
    /\ healCalls = 0
    /\ cacheSets = << >>
    /\ audit = << >>
    /\ resp = NoResp
    /\ doneAt = 0

Init == settings \in Deployments /\ InitRest

\* AuditLogger.log_event: the call and whether the entry was stored
Event(action, stored) == [action |-> action, stored |-> stored]

\* the audit_log_id a response gets from a log entry
AuditId(stored) == IF stored THEN "uuid" ELSE "None"

Extend(f, k, v) == [x \in DOMAIN f \cup {k} |-> IF x = k THEN v ELSE f[x]]

(***************************************************************************)
(* execute_natural_language_query, lines 55-188: from the request to the   *)
(* first await.                                                            *)
(***************************************************************************)
\* lines 141-148: LLMService.generate_sql passes db_type as a fifth
\* positional argument, which OllamaProvider.generate_sql does not take
orchestrator_raises(provider) == provider = "ollama"

\* line 178: llm_service.refine_query delegates to provider.refine_query,
\* which AnthropicProvider and OllamaProvider do not define
refine_raises(provider) == provider \in {"anthropic", "ollama"}

\* the read-only check with its negation lost
policy_denied_unnegated(type, enforce, candidate) ==
    type # "mongodb" /\ enforce /\ is_safe_sql(candidate)

\* lines 153-155: the read-only check denies the candidate
policy_denied(type, enforce, candidate) ==
    type # "mongodb" /\ enforce /\ ~is_safe_sql(candidate)

\* line 168: settings is bound at line 154 only, inside the branch of the
\* SQL kinds
settings_unbound(type) == type = "mongodb"

\* line 168: the confidence gate
below_threshold(confidence) == confidence < confidence_threshold

LowConfidenceResponse(candidate, confidence) ==
    [QueryResponse(candidate, << >>, confidence) EXCEPT !.requires_confirmation = TRUE]

\* what lines 55-179 return or raise; NoResp when the handler goes on
PreludeOutcome(ds, candidate, confidence, prelude) ==
    IF prelude = "not_found" THEN HttpError(404, "Data source not found")
    ELSE IF prelude = "no_tables" THEN HttpError(400, "No tables found in the database")
    ELSE IF prelude = "llm_unconfigured" THEN HttpError(503, "LLM service not configured")
    ELSE IF orchestrator_raises(settings.llm_provider)
         THEN HttpError(500, "Internal Server Error")
    ELSE IF candidate = T_empty THEN HttpError(400, "LLM Error")
    ELSE IF policy_denied(ds.type, settings.enforce_read_only, candidate)
         THEN HttpError(403, "Security Policy Violation: Only SELECT queries are allowed.")
    ELSE IF settings_unbound(ds.type) THEN HttpError(500, "Internal Server Error")
    ELSE IF below_threshold(confidence)
         THEN IF refine_raises(settings.llm_provider)
              THEN HttpError(500, "Internal Server Error")
              ELSE LowConfidenceResponse(candidate, confidence)
    ELSE NoResp

\* the audit calls without the security event of line 156
PreludeAudit_silent(outcome, audit_ok) ==
    IF outcome = HttpError(404, "Data source not found") THEN << >>
    ELSE <<Event("query_request", audit_ok)>>
         \o (IF outcome = NoResp THEN <<Event("query_execution", audit_ok)>> ELSE << >>)

\* the log_event calls of lines 67, 156 and 182
PreludeAudit(outcome, audit_ok) ==
    IF outcome = HttpError(404, "Data source not found") THEN << >>
    ELSE <<Event("query_request", audit_ok)>>
         \o (IF outcome = HttpError(403, "Security Policy Violation: Only SELECT queries are allowed.")
             THEN <<Event("security_violation_blocked", audit_ok)>> ELSE << >>)
         \o (IF outcome = NoResp THEN <<Event("query_execution", audit_ok)>> ELSE << >>)

Begin(ds, run_async, candidate, confidence, audit_ok, prelude) ==
    LET outcome == PreludeOutcome(ds, candidate, confidence, prelude)
        produced == prelude = "ok" /\ ~orchestrator_raises(settings.llm_provider)
    IN /\ pc \in {"idle", "done"}
       /\ nreq < MaxRequests
       \* the job runner and the rest of the pipeline share no state: only
       \* the last request of a run asks for background execution
       /\ run_async => nreq + 1 = MaxRequests
       \* a request that ends before the orchestrator has no other input
       /\ prelude # "ok" => ~run_async /\ candidate = T_empty
                             /\ confidence = confidence_threshold
       /\ nreq' = nreq + 1
       /\ req' = [id |-> nreq + 1, ds |-> ds.id, type |-> ds.type, run_async |-> run_async,
                  candidate |-> IF produced THEN candidate ELSE T_empty,
                  confidence |-> IF produced THEN confidence ELSE 0,
                  audit_ok |-> audit_ok]
       /\ sql' = IF produced THEN candidate ELSE T_empty
       /\ executor' = IF prelude = "not_found" THEN "none" ELSE "open"
       /\ audit' = PreludeAudit(outcome, audit_ok)
       /\ first_error' = NoError
       /\ fixed' = T_empty
       /\ exec_result' = NoExecResult
       /\ healed' = FALSE
       /\ execLog' = << >>
       /\ healCalls' = 0
       /\ cacheSets' = << >>
       /\ resp' = outcome
       /\ doneAt' = now
       /\ pc' = IF outcome = NoResp THEN "cache_get" ELSE "done"
       /\ UNCHANGED <<settings, now, ticks, cache, jobs, tasks>>

(***************************************************************************)
(* Lines 190-207: the Result Cache lookup.                                 *)
(***************************************************************************)
\* the rebuilt response without the is_cached mark
CachedResponse_unmarked(cached_data, audit_ok) ==
    [cached_data EXCEPT !.audit_log_id = IF audit_ok THEN "uuid" ELSE @]

\* lines 203-207: the response rebuilt from a cache entry
CachedResponse(cached_data, audit_ok) ==
    [cached_data EXCEPT !.is_cached = TRUE,
                        !.audit_log_id = IF audit_ok THEN "uuid" ELSE @]

CacheGetStep(up) ==
    LET cached_data == get_query_result(cache, now, req.ds, sql, up)
    IN /\ pc = "cache_get"
       /\ IF cached_data # NoResp
          THEN /\ audit' = Append(audit, Event("query_cache_hit", req.audit_ok))
               /\ resp' = CachedResponse(cached_data, req.audit_ok)
               /\ doneAt' = now
               /\ pc' = "done"
          ELSE /\ pc' = IF req.run_async THEN "create_job" ELSE "exec"
               /\ UNCHANGED <<audit, resp, doneAt>>
       /\ UNCHANGED <<settings, now, ticks, cache, jobs, tasks, executor, nreq, req, sql,
                      first_error, fixed, exec_result, healed, execLog, healCalls,
                      cacheSets>>

(***************************************************************************)
(* Lines 209-229: background execution is requested.                       *)
(***************************************************************************)
JobInfo(status, result, error) == [status |-> status, result |-> result, error |-> error]

\* background_executor.py lines 28 and 40: ex=86400
job_ttl == 86400

\* redis SET of a job key at a time: the job_info and the expiry of the key
StoredJob(job_info, time) ==
    [status |-> job_info.status, result |-> job_info.result, error |-> job_info.error,
     exp |-> time + job_ttl]

\* get_job that never finds a key expired
get_job_unexpiring(store, time, job_id) ==
    IF job_id \in DOMAIN store
    THEN JobInfo(store[job_id].status, store[job_id].result, store[job_id].error)
    ELSE NoResp

\* BackgroundExecutor.get_job, lines 42-47; NoResp is None
get_job(store, time, job_id) ==
    IF job_id \in DOMAIN store /\ time < store[job_id].exp
    THEN JobInfo(store[job_id].status, store[job_id].result, store[job_id].error)
    ELSE NoResp

\* lines 213-223: the dict handed to the background task; its
\* chart_recommendation is a ChartRecommendation object
ResponseTemplate(sql_query, confidence, job_id) ==
    [sql_query |-> sql_query, results |-> << >>, row_count |-> 0,
     chart_recommendation |-> "ChartRecommendation(chart_type='table')",
     confidence |-> confidence, job_id |-> job_id, status |-> "processing"]

\* BackgroundExecutor.create_job and start_query_task, then the response
CreateJobStep(up) ==
    /\ pc = "create_job"
    /\ IF up
       THEN /\ jobs' = Extend(jobs, req.id, StoredJob(JobInfo("processing", NoResp, NoError), now))
            /\ tasks' = Extend(tasks, req.id,
                               [sql |-> sql,
                                template |-> ResponseTemplate(sql, req.confidence, req.id),
                                state |-> "pending", dispatched |-> FALSE, ok |-> FALSE,
                                rows |-> << >>, err |-> NoError, up |-> TRUE,
                                writes |-> <<"processing">>, executor |-> "open",
                                execCalls |-> 0, healCalls |-> 0, unhandled |-> FALSE])
            /\ resp' = [QueryResponse(sql, << >>, req.confidence) EXCEPT
                           !.job_id = req.id, !.status = "processing"]
       ELSE /\ resp' = HttpError(500, "Internal Server Error")
            /\ UNCHANGED <<jobs, tasks>>
    /\ doneAt' = now
    /\ pc' = "done"
    /\ UNCHANGED <<settings, now, ticks, cache, executor, nreq, req, sql, first_error,
                   fixed, exec_result, healed, execLog, healCalls, cacheSets, audit>>

(***************************************************************************)
(* Lines 231-263: execution, healing, the healed retry.                    *)
(***************************************************************************)
Call(path, text, r) ==
    [path |-> path, sql |-> text, dispatched |-> r.dispatched, ok |-> r.ok, err |-> r.err]

\* line 232
Execute(out) ==
    LET r == execute_query(sql, out)
    IN /\ pc = "exec"
       /\ execLog' = Append(execLog, Call("first", sql, r))
       /\ IF r.ok
          THEN /\ exec_result' = r
               /\ pc' = "post"
               /\ UNCHANGED first_error
          ELSE /\ first_error' = r.err
               /\ pc' = "heal"
               /\ UNCHANGED exec_result
       /\ UNCHANGED <<settings, now, ticks, cache, jobs, tasks, executor, nreq, req, sql,
                      fixed, healed, healCalls, cacheSets, audit, resp, doneAt>>

\* the retry test without the comparison with the failing text
retry_wanted_any(fixed_sql, failing_sql) == fixed_sql # T_empty

\* line 247
retry_wanted(fixed_sql, failing_sql) == fixed_sql # T_empty /\ fixed_sql # failing_sql

\* lines 239-247 and 262-263; answer is what QueryHealer.heal_query returns,
\* the empty text when the provider call raised
Heal(answer) ==
    /\ pc = "heal"
    /\ healCalls' = healCalls + 1
    /\ fixed' = answer
    /\ IF retry_wanted(answer, sql)
       THEN /\ pc' = "retry"
            /\ UNCHANGED <<resp, doneAt>>
       ELSE /\ resp' = HttpErrorWith(400, "Database Error: ", <<first_error>>)
            /\ doneAt' = now
            /\ pc' = "done"
    /\ UNCHANGED <<settings, now, ticks, cache, jobs, tasks, executor, nreq, req, sql,
                   first_error, exec_result, healed, execLog, cacheSets, audit>>

\* lines 248-261
Retry(out) ==
    LET r == execute_query(fixed, out)
    IN /\ pc = "retry"
       /\ execLog' = Append(execLog, Call("retry", fixed, r))
       /\ IF r.ok
          THEN /\ exec_result' = r
               /\ sql' = fixed
               /\ healed' = TRUE
               /\ pc' = "post"
               /\ UNCHANGED <<resp, doneAt>>
          ELSE /\ resp' = HttpErrorWith(400, "Query failed and could not be auto-fixed. Error: ",
                                        <<first_error>>)
               /\ doneAt' = now
               /\ pc' = "done"
               /\ UNCHANGED <<exec_result, sql, healed>>
       /\ UNCHANGED <<settings, now, ticks, cache, jobs, tasks, executor, nreq, req,
                      first_error, fixed, healCalls, cacheSets, audit>>

(***************************************************************************)
(* Lines 265-353: masking, close, response, audit, cache store.            *)
(***************************************************************************)
\* the response built with the text the orchestrator produced
ResponseData_original(audit_ok) ==
    [QueryResponse(req.candidate,
                   mask_results(exec_result.rows, settings.enable_pii_masking),
                   req.confidence) EXCEPT
        !.is_healed = healed,
        !.original_error = IF healed THEN first_error ELSE NoError,
        !.audit_log_id = AuditId(audit_ok)]

\* lines 265-267 and 324-348
ResponseData(audit_ok) ==
    [QueryResponse(sql, mask_results(exec_result.rows, settings.enable_pii_masking),
                   req.confidence) EXCEPT
        !.is_healed = healed,
        !.original_error = IF healed THEN first_error ELSE NoError,
        !.audit_log_id = AuditId(audit_ok)]

\* the record of one set_query_result call made at the current time
SetCall(data_source_id, text, result, ttl, up) ==
    [ds |-> data_source_id, sql |-> text, result |-> result, ttl |-> ttl, at |-> now,
     up |-> up,
     written |-> up /\ JsonSerializable(result) /\ EffectiveTtl(ttl) > 0]

\* the store's exception reaching the handler
PostOutcome_unswallowed(response_data, up) ==
    IF up THEN response_data ELSE HttpError(500, "Internal Server Error")

\* lines 351-353: set_query_result swallows what the store raises, and the
\* handler returns response_data
PostOutcome(response_data, up) == response_data

Post(up) ==
    LET response_data == ResponseData(req.audit_ok)
        store == set_query_result(cache, now, req.ds, sql, response_data, NoneInt, up)
    IN /\ pc = "post"
       /\ executor' = "closed"
       /\ audit' = Append(audit, Event("query_complete", req.audit_ok))
       /\ cache' = store
       /\ cacheSets' = Append(cacheSets, SetCall(req.ds, sql, response_data, NoneInt, up))
       /\ resp' = PostOutcome(response_data, up)
       /\ doneAt' = now
       /\ pc' = "done"
       /\ UNCHANGED <<settings, now, ticks, jobs, tasks, nreq, req, sql, first_error, fixed,
                      exec_result, healed, execLog, healCalls>>

(***************************************************************************)
(* BackgroundExecutor._execute_query_async                                 *)
(***************************************************************************)
\* json.dumps taken to accept the ChartRecommendation object
JobInfoSerializable_lenient(job_info) ==
    \/ job_info.result = NoResp
    \/ \A i \in 1..Len(job_info.result.results) :
           PyType(job_info.result.results[i].x) = "str"

\* update_job, lines 33-40: json.dumps accepts the job_info
JobInfoSerializable(job_info) ==
    \/ job_info.result = NoResp
    \/ /\ PyType(job_info.result.chart_recommendation) = "str"
       /\ \A i \in 1..Len(job_info.result.results) :
              PyType(job_info.result.results[i].x) = "str"

\* lines 61-64: the template filled with the outcome
FilledTemplate(template, rows) ==
    [template EXCEPT !.results = rows, !.row_count = Len(rows), !.status = "completed"]

\* lines 74-78: the except clause.  written are the job_infos stored so far;
\* unhandled tells that an exception leaves the task: the one update_job
\* raises at line 76 or the one close raises at line 78
TaskExcept(written, e, up, close_ok) ==
    IF up
    THEN [writes |-> Append(written, JobInfo("failed", NoResp, e)),
          executor |-> IF close_ok THEN "closed" ELSE "open",
          unhandled |-> ~close_ok]
    ELSE [writes |-> written, executor |-> "open", unhandled |-> TRUE]

\* lines 55-78 after execute_query has returned r: the job_infos the task
\* stores, in order, and the state it leaves the executor in
TaskRun(template, r, up, close_ok) ==
    LET job_info == JobInfo("completed", FilledTemplate(template, r.rows), NoError)
    IN IF ~r.ok THEN TaskExcept(<< >>, r.err, up, close_ok)
       ELSE IF ~JobInfoSerializable(job_info)
            \* json.dumps raises on the job_info
            THEN TaskExcept(<< >>,
                            Err("TypeError",
                                "Object of type ChartRecommendation is not JSON serializable",
                                ""),
                            up, close_ok)
       ELSE IF ~up
            THEN TaskExcept(<< >>, Err("ConnectionError", "Error connecting to redis", ""),
                            up, close_ok)
       ELSE IF ~close_ok
            THEN TaskExcept(<<job_info>>, Err("Exception", "dispose failed", ""),
                            up, close_ok)
       ELSE [writes |-> <<job_info>>, executor |-> "closed", unhandled |-> FALSE]

BgRun(j, out, up, close_ok) ==
    LET r == execute_query(tasks[j].sql, out)
        run == TaskRun(tasks[j].template, r, up, close_ok)
    IN /\ j \in DOMAIN tasks
       /\ tasks[j].state = "pending"
       /\ tasks' = [tasks EXCEPT ![j] =
                       [@ EXCEPT !.state = "ran", !.dispatched = r.dispatched, !.ok = r.ok,
                                 !.rows = r.rows, !.err = r.err, !.up = up,
                                 !.writes = @ \o [i \in 1..Len(run.writes) |-> run.writes[i].status],
                                 !.executor = run.executor,
                                 !.unhandled = run.unhandled,
                                 \* line 58 is the task's only call of execute_query,
                                 \* and the task never calls heal_query
                                 !.execCalls = @ + 1]]
       /\ IF run.writes # << >>
          THEN jobs' = [jobs EXCEPT ![j] = StoredJob(run.writes[Len(run.writes)], now)]
          ELSE UNCHANGED jobs
       /\ UNCHANGED <<settings, now, ticks, cache, executor, nreq, pc, req, sql,
                      first_error, fixed, exec_result, healed, execLog, healCalls,
                      cacheSets, audit, resp, doneAt>>

(***************************************************************************)
(* Time passes.                                                            *)
(***************************************************************************)
\* only the entries of the Result Cache depend on the clock, and the handler
\* reads it at the lookup and at the store only; time that passes after the
\* last request is read by nobody
Tick(d) ==
    /\ pc \in {"idle", "done"}
    /\ cache # << >>
    /\ nreq < MaxRequests
    /\ ticks < MaxTicks
    /\ ticks' = ticks + 1
    /\ now' = now + d
    /\ UNCHANGED <<settings, cache, jobs, tasks, executor, nreq, pc, req, sql, first_error,
                   fixed, exec_result, healed, execLog, healCalls, cacheSets, audit, resp,
                   doneAt>>

Next ==
    \/ \E ds \in DataSources, run_async \in BOOLEAN, candidate \in CandidateTexts,
          confidence \in Confidences, audit_ok \in BOOLEAN, prelude \in Preludes :
            Begin(ds, run_async, candidate, confidence, audit_ok, prelude)
    \/ \E up \in BOOLEAN : CacheGetStep(up)
    \/ \E up \in BOOLEAN : CreateJobStep(up)
    \/ \E out \in EngineOutcomes : Execute(out)
    \/ \E answer \in HealTexts : Heal(answer)
    \/ \E out \in EngineOutcomes : Retry(out)
    \/ \E up \in BOOLEAN : Post(up)
    \/ \E j \in DOMAIN tasks, out \in EngineOutcomes, up \in BOOLEAN, close_ok \in BOOLEAN :
          BgRun(j, out, up, close_ok)
    \/ \E d \in TickSteps : Tick(d)

Spec == Init /\ [][Next]_vars

(***************************************************************************)
(* RedisCacheService on its own: callers set and get entries with any      *)
(* payload and any ttl, and time passes.                                   *)
(***************************************************************************)
MaxCalls == 2

\* the services are exercised on their own, no request in flight
ServiceInit ==
    Init /\ settings = [enforce_read_only |-> FALSE, llm_provider |-> "openai",
                         enable_pii_masking |-> FALSE]

\* a response dict whose audit_log_id is None, one whose audit_log_id is a
\* UUID, one holding a datetime cell
Payloads ==
    { QueryResponse(T_sel, <<Row_email>>, confidence_threshold),
      [QueryResponse(T_sel, <<Row_email>>, confidence_threshold) EXCEPT !.audit_log_id = "uuid"],
      QueryResponse(T_sel, <<Row_date>>, confidence_threshold) }

CacheTexts == {T_sel, T_lead}

CacheSet(data_source_id, text, result, ttl, up) ==
    /\ pc = "idle"
    /\ Len(cacheSets) < MaxCalls
    /\ cache' = set_query_result(cache, now, data_source_id, text, result, ttl, up)
    /\ cacheSets' = Append(cacheSets, SetCall(data_source_id, text, result, ttl, up))
    /\ UNCHANGED <<settings, now, ticks, jobs, tasks, executor, nreq, pc, req, sql,
                   first_error, fixed, exec_result, healed, execLog, healCalls, audit,
                   resp, doneAt>>

\* resp is what the last get_query_result call returned
CacheGet(data_source_id, text, up) ==
    /\ pc = "idle"
    /\ cacheSets # << >>
    /\ resp' = get_query_result(cache, now, data_source_id, text, up)
    /\ UNCHANGED <<settings, now, ticks, cache, jobs, tasks, executor, nreq, pc, req, sql,
                   first_error, fixed, exec_result, healed, execLog, healCalls, cacheSets,
                   audit, doneAt>>

CacheNext ==
    \/ \E text \in CacheTexts, result \in Payloads,
          ttl \in {NoneInt, SomeInt(0), SomeInt(default_ttl - 1), SomeInt(0 - 1)},
          up \in BOOLEAN :
          CacheSet(1, text, result, ttl, up)
    \/ \E text \in CacheTexts, up \in BOOLEAN : CacheGet(1, text, up)
    \/ \E d \in TickSteps : Tick(d)

CacheSpec == ServiceInit /\ [][CacheNext]_vars

(***************************************************************************)
(* The connectors on their own: execute_query(query, timeout) of each      *)
(* connector class, called with any text.                                  *)
(***************************************************************************)
T_json == <<"{\"collection\": \"x\"}">>

ConnectorKinds == {"postgresql", "mysql", "duckdb", "snowflake", "bigquery", "mongodb"}

ConnectorTexts ==
    {T_empty, T_blank, T_ident, T_sel, T_lead, T_lower, T_drop, T_glued, T_spaced,
     T_twosel, T_grant, T_json}

\* what the engine would do with a statement left alone: it fails, or it
\* yields rows after secs seconds
EngineRuns ==
    [fail : {"none"}, rows : ResultSets,
     secs : {query_timeout_seconds - 1, query_timeout_seconds + 1}]
    \cup [fail : EngineFailures, rows : {<< >>}, secs : {0}]

\* sql.py lines 72-78: the check before the connection is opened
SqlConnectorRefusal(text) ==
    LET parsed == Parse(text)
    IN IF parsed = << >> THEN Err("SQLSyntaxError", "Invalid SQL query", "")
       ELSE IF get_type(parsed[1]) # "SELECT"
            THEN Err("SQLSyntaxError", "Only SELECT statements are allowed", "")
       ELSE NoError

\* sql.py lines 83-86: the session limit set on the engine before the query
SqlConnectorLimit(ds_type) ==
    CASE ds_type = "postgresql" -> "statement_timeout"
      [] ds_type = "mysql"      -> "max_execution_time"
      [] OTHER                  -> "none"

\* mongodb.py lines 65-68: json.loads accepts the text and it names a collection
MongoCommand(text) == Strip(text) = T_json

ConnResult(ok, rows, err, dispatched, limit) ==
    [ok |-> ok, rows |-> rows, err |-> err, dispatched |-> dispatched, limit |-> limit]

\* sql.py lines 71-100
SqlConnector_execute_query(ds_type, text, timeout, run) ==
    LET limit == SqlConnectorLimit(ds_type)
    IN IF SqlConnectorRefusal(text) # NoError
       THEN ConnResult(FALSE, << >>, SqlConnectorRefusal(text), FALSE, "none")
       ELSE IF run.fail = "connect"
       THEN ConnResult(FALSE, << >>, Err("ConnectionError", "Database connection error: ", "connect"),
                       TRUE, limit)
       ELSE IF run.fail = "sql"
       THEN ConnResult(FALSE, << >>, Err("SQLSyntaxError", "SQL Error: ", "sql"), TRUE, limit)
       ELSE IF limit # "none" /\ run.secs > timeout
       THEN ConnResult(FALSE, << >>, Err("QueryTimeoutError", "Query exceeded seconds limit", "30"),
                       TRUE, limit)
       ELSE ConnResult(TRUE, run.rows, NoError, TRUE, limit)

\* snowflake.py lines 77-90: the driver's exception is raised again as it is
SnowflakeConnector_execute_query(text, timeout, run) ==
    IF run.fail # "none"
    THEN ConnResult(FALSE, << >>, Err("snowflake.Error", "", run.fail), TRUE, "none")
    ELSE ConnResult(TRUE, run.rows, NoError, TRUE, "none")

\* bigquery.py lines 81-94: the job is started without a limit and the
\* client stops waiting for it after timeout seconds
BigQueryConnector_execute_query(text, timeout, run) ==
    IF run.fail # "none"
    THEN ConnResult(FALSE, << >>, Err("google.Error", "", run.fail), TRUE, "none")
    ELSE IF run.secs > timeout
    THEN ConnResult(FALSE, << >>, Err("concurrent.futures.TimeoutError", "", ""), TRUE, "none")
    ELSE ConnResult(TRUE, run.rows, NoError, TRUE, "none")

\* mongodb.py lines 57-90
MongoConnector_execute_query(text, timeout, run) ==
    IF ~MongoCommand(text)
    THEN ConnResult(FALSE, << >>, Err("Exception", "MongoDB Query Error: ", "json"), FALSE, "none")
    ELSE IF run.fail # "none"
    THEN ConnResult(FALSE, << >>, Err("Exception", "MongoDB Query Error: ", run.fail), TRUE, "none")
    ELSE ConnResult(TRUE, run.rows, NoError, TRUE, "none")

connector_execute_query(kind, text, timeout, run) ==
    CASE kind \in {"postgresql", "mysql", "duckdb"}   -> SqlConnector_execute_query(kind, text, timeout, run)
      [] kind = "snowflake"  -> SnowflakeConnector_execute_query(text, timeout, run)
      [] kind = "bigquery"   -> BigQueryConnector_execute_query(text, timeout, run)
      [] kind = "mongodb"    -> MongoConnector_execute_query(text, timeout, run)

\* one call connector.execute_query(text, settings.query_timeout_seconds);
\* execLog holds the call
ConnExecute(kind, text, run) ==
    LET r == connector_execute_query(kind, text, query_timeout_seconds, run)
    IN /\ pc = "idle"
       /\ execLog' = <<[path |-> kind, sql |-> text, dispatched |-> r.dispatched,
                        ok |-> r.ok, err |-> r.err, limit |-> r.limit, run |-> run]>>
       /\ UNCHANGED <<settings, now, ticks, cache, jobs, tasks, executor, nreq, pc, req, sql,
                      first_error, fixed, exec_result, healed, healCalls, cacheSets, audit,
                      resp, doneAt>>

ConnNext ==
    \E kind \in ConnectorKinds, text \in ConnectorTexts, run \in EngineRuns :
        ConnExecute(kind, text, run)

ConnSpec == ServiceInit /\ [][ConnNext]_vars

(***************************************************************************)
(* QueryExecutor.recommend_chart_type on its own.  A result set is the     *)
(* list of its column names (the keys of the first row, in order) and its  *)
(* rows; a column name is a sequence of characters; a cell is a Python     *)
(* value tagged with its type, numbers counted in hundredths.              *)
(***************************************************************************)
sample_size == 10

N_month    == <<"m", "o", "n", "t", "h">>
N_category == <<"c", "a", "t", "e", "g", "o", "r", "y">>
N_region   == <<"r", "e", "g", "i", "o", "n">>
N_revenue  == <<"r", "e", "v", "e", "n", "u", "e">>
N_share    == <<"s", "h", "a", "r", "e">>

\* None as a column role
NoCol == << >>

PyNone == [t |-> "NoneType", v |-> 0]
PyNum(t, hundredths) == [t |-> t, v |-> hundredths]
PyStr(name) == [t |-> "str", v |-> name]
PyDate == [t |-> "date", v |-> 0]
PyUuid == [t |-> "UUID", v |-> 0]

\* str.lower on the characters used here
LowerChar(c) ==
    CASE c = "Y" -> "y"
      [] c = "T" -> "t"
      [] c = "O" -> "o"
      [] OTHER -> c
Lower(name) == [i \in 1..Len(name) |-> LowerChar(name[i])]

\* keyword in name
ContainsSeq(name, keyword) ==
    \E i \in 0..(Len(name) - Len(keyword)) : SubSeq(name, i + 1, i + Len(keyword)) = keyword

\* line 177
date_keywords ==
    { <<"d","a","t","e">>, <<"t","i","m","e">>, <<"m","o","n","t","h">>, <<"y","e","a","r">>,
      <<"d","a","y">>, <<"t","s">> }

\* line 201
time_keywords == date_keywords \cup { <<"w","e","e","k">>, <<"a","t">> }

\* line 156: results[:min(10, len(results))]
Sample(results) ==
    SubSeq(results, 1, IF sample_size <= Len(results) THEN sample_size ELSE Len(results))

\* line 165
ColumnValues(rs, col) ==
    LET sample == Sample(rs.rows)
        cells == [i \in 1..Len(sample) |-> sample[i][col]]
    IN SelectSeq(cells, LAMBDA cell : cell # PyNone)

\* lines 164-182: the list a column is appended to
Classify(rs, col) ==
    LET values == ColumnValues(rs, col)
        first_val == values[1]
    IN IF values = << >> THEN "skipped"
       ELSE IF first_val.t \in {"int", "float", "Decimal"} THEN "numeric"
       ELSE IF first_val.t \in {"date", "datetime"} THEN "date"
       ELSE IF first_val.t = "str"
            THEN IF \E keyword \in date_keywords : ContainsSeq(Lower(col), keyword)
                 THEN "date" ELSE "text"
       ELSE "text"

ColumnsOf(rs, class) == SelectSeq(rs.cols, LAMBDA col : Classify(rs, col) = class)

RECURSIVE SumFrom(_, _, _)
\* line 190: the sum over the int and float cells of a column
SumFrom(rows, col, i) ==
    IF i > Len(rows) THEN 0
    ELSE (IF rows[i][col].t \in {"int", "float"} THEN rows[i][col].v ELSE 0)
         + SumFrom(rows, col, i + 1)

\* line 192, in hundredths
LooksLikeProportions(total) ==
    (99 <= total /\ total <= 101) \/ (9900 <= total /\ total <= 10100)

ChartRecommendation(chart_type, x_column, y_column, category_column, value_column) ==
    [kind |-> "chart", chart_type |-> chart_type, x_column |-> x_column,
     y_column |-> y_column, category_column |-> category_column,
     value_column |-> value_column]

TableChart == ChartRecommendation("table", NoCol, NoCol, NoCol, NoCol)

\* the donut branch naming a chart type outside the pattern
DonutChart_pie(category_column, value_column) ==
    ChartRecommendation("pie", NoCol, NoCol, category_column, value_column)

\* lines 193-197
DonutChart(category_column, value_column) ==
    ChartRecommendation("donut", NoCol, NoCol, category_column, value_column)

\* the two-column branch without the classification by name of line 177
TwoColumnDate_bar(x_column, y_column) ==
    ChartRecommendation("bar", x_column, y_column, NoCol, NoCol)

\* lines 215-220
TwoColumnDate(x_column, y_column) ==
    ChartRecommendation("area", x_column, y_column, NoCol, NoCol)

\* lines 130-232
recommend_chart_type(rs) ==
    LET numeric_cols == ColumnsOf(rs, "numeric")
        text_cols == ColumnsOf(rs, "text")
        date_cols == ColumnsOf(rs, "date")
        two_simple == Len(rs.cols) = 2 /\ Len(numeric_cols) = 1 /\ Len(text_cols) = 1
        two_date == Len(rs.cols) = 2 /\ Len(date_cols) = 1 /\ Len(numeric_cols) = 1
    IN IF rs.rows = << >> THEN TableChart
       ELSE IF Len(rs.cols) < 2 THEN TableChart
       ELSE IF two_simple
            THEN IF LooksLikeProportions(SumFrom(rs.rows, numeric_cols[1], 1))
                 THEN DonutChart(text_cols[1], numeric_cols[1])
                 ELSE IF \E keyword \in time_keywords : ContainsSeq(Lower(text_cols[1]), keyword)
                      THEN ChartRecommendation("area", text_cols[1], numeric_cols[1], NoCol, NoCol)
                      ELSE ChartRecommendation("bar", text_cols[1], numeric_cols[1], NoCol, NoCol)
       ELSE IF two_date THEN TwoColumnDate(date_cols[1], numeric_cols[1])
       ELSE IF numeric_cols # << >> /\ (text_cols # << >> \/ date_cols # << >>)
            THEN ChartRecommendation(IF date_cols # << >> THEN "line" ELSE "bar",
                                     IF date_cols # << >> THEN date_cols[1] ELSE text_cols[1],
                                     numeric_cols[1], NoCol, NoCol)
       ELSE TableChart

\* the result sets recommend_chart_type is called with
LabelNames == {N_month, N_category, N_region, <<"w", "e", "e", "k">>, <<"Y", "e", "a", "r">>}

\* two rows of a label column and a number column
TwoColumns(label, number, labels, numbers, label_first) ==
    [cols |-> IF label_first THEN <<label, number>> ELSE <<number, label>>,
     rows |-> [i \in 1..2 |->
                 [col \in {label, number} |-> IF col = label THEN labels[i] ELSE numbers[i]]]]

MonthRevenue ==
    TwoColumns(N_month, N_revenue, <<PyStr("Jan"), PyStr("Feb")>>,
               <<PyNum("int", 10000), PyNum("int", 15000)>>, TRUE)

\* two-column results, the empty result, a result of one column, one of two
\* string columns, and results of three columns
ChartInputs ==
    { TwoColumns(label, number, labels, numbers, label_first) :
          label \in LabelNames, number \in {N_revenue, N_share},
          labels \in { <<PyStr("Jan"), PyStr("Feb")>>, <<PyDate, PyDate>>,
                       <<PyUuid, PyUuid>>, <<PyNone, PyNone>> },
          numbers \in { <<PyNum("int", 10000), PyNum("int", 15000)>>,
                        <<PyNum("int", 4000), PyNum("int", 6000)>>,
                        <<PyNum("float", 40), PyNum("float", 60)>>,
                        <<PyNum("Decimal", 4000), PyNum("Decimal", 6000)>>,
                        <<PyNum("int", 10000), PyNone>> },
          label_first \in BOOLEAN }
    \cup { [cols |-> << >>, rows |-> << >>],
           [cols |-> <<N_revenue>>,
            rows |-> <<[col \in {N_revenue} |-> PyNum("int", 10000)]>>],
           [cols |-> <<N_category, N_region>>,
            rows |-> <<[col \in {N_category, N_region} |-> PyStr("Jan")]>>] }
    \cup { [cols |-> <<label, N_revenue, N_share>>,
            rows |-> <<[col \in {label, N_revenue, N_share} |->
                          IF col = label THEN PyStr("Jan") ELSE PyNum("int", 10000)]>>] :
             label \in LabelNames }

\* exec_result holds the result set and resp the recommendation returned
Recommend(rs) ==
    /\ pc = "idle"
    /\ exec_result' = [ok |-> TRUE, rows |-> rs, err |-> NoError, dispatched |-> FALSE]
    /\ resp' = recommend_chart_type(rs)
    /\ UNCHANGED <<settings, now, ticks, cache, jobs, tasks, executor, nreq, pc, req, sql,
                   first_error, fixed, healed, execLog, healCalls, cacheSets, audit, doneAt>>

ChartNext == \E rs \in ChartInputs : Recommend(rs)

ChartSpec == ServiceInit /\ [][ChartNext]_vars

(***************************************************************************)
(* The validators on their own: LLMService.validate_sql with the default   *)
(* db_type and is_safe_sql, called with any text.                          *)
(***************************************************************************)
Validation(valid, msg) == [kind |-> "validation", valid |-> valid, msg |-> msg]

\* validate_sql without the test of lines 104-105
validate_sql_first_only(text) ==
    LET parsed == Parse(text)
    IN IF text = T_empty THEN Validation(FALSE, "Query is empty")
       ELSE IF parsed = << >> THEN Validation(FALSE, "Invalid SQL syntax")
       ELSE IF get_type(parsed[1]) # "SELECT"
            THEN Validation(FALSE, "Only SELECT statements are allowed")
       ELSE Validation(TRUE, "")

\* llm_service.py lines 82-113, db_type = "postgresql"
validate_sql(text) ==
    LET parsed == Parse(text)
    IN IF text = T_empty THEN Validation(FALSE, "Query is empty")
       ELSE IF parsed = << >> THEN Validation(FALSE, "Invalid SQL syntax")
       ELSE IF Len(parsed) > 1 THEN Validation(FALSE, "Multiple statements are not allowed")
       ELSE IF get_type(parsed[1]) # "SELECT"
            THEN Validation(FALSE, "Only SELECT statements are allowed")
       ELSE Validation(TRUE, "")

\* single statements, and the ways of chaining them
Statements ==
    { T_sel, T_lower, T_drop, T_ident, <<"GRANT", " ", "x">>, <<"SELECT", " ", "DELETE">> }

Separators == { <<";">>, <<";", " ">> }

ValidatorTexts ==
    {T_empty, T_blank, T_lead, T_glued, T_spaced, T_twosel, T_grant}
    \cup Statements
    \cup { a \o sep : a \in Statements, sep \in Separators }
    \cup { a \o sep \o b : a \in Statements, sep \in Separators, b \in Statements }

\* sql is the text and resp what the validator returned
Validate(text) ==
    /\ pc = "idle"
    /\ sql' = text
    /\ resp' = validate_sql(text)
    /\ UNCHANGED <<settings, now, ticks, cache, jobs, tasks, executor, nreq, pc, req,
                   first_error, fixed, exec_result, healed, execLog, healCalls, cacheSets,
                   audit, doneAt>>

SafeCheck(text) ==
    /\ pc = "idle"
    /\ sql' = text
    /\ resp' = [kind |-> "safety", safe |-> is_safe_sql(text)]
    /\ UNCHANGED <<settings, now, ticks, cache, jobs, tasks, executor, nreq, pc, req,
                   first_error, fixed, exec_result, healed, execLog, healCalls, cacheSets,
                   audit, doneAt>>

ValidatorNext ==
    \/ \E text \in ValidatorTexts : Validate(text)
    \/ \E text \in ValidatorTexts : SafeCheck(text)

ValidatorSpec == ServiceInit /\ [][ValidatorNext]_vars

(***************************************************************************)
(* LLMService.generate_sql on its own: the relevance filter and the call   *)
(* of the configured provider.                                             *)
(***************************************************************************)
N_users  == <<"u", "s", "e", "r", "s">>
N_Orders == <<"O", "r", "d", "e", "r", "s">>
N_items  == <<"i", "t", "e", "m", "s">>

TablePrefix == <<"T", "a", "b", "l", "e", ":", " ">>

\* schema_analyzer.py line 105: the block of one table.  A schema
\* description is the sequence of its blocks, which split("\n\n") and
\* "\n\n".join take apart and put together
SchemaInfo(table_names) ==
    [i \in 1..Len(table_names) |-> TablePrefix \o table_names[i] \o <<"\n">>]

\* what embedding and vector search do
SearchFailed(step) == [kind |-> step, hits |-> << >>]
SearchHits(names) == [kind |-> "hits", hits |-> names]

\* SemanticSearch.search_relevant_schema: the except clause returns []
search_relevant_schema(search) == IF search.kind = "hits" THEN search.hits ELSE << >>

\* get_relevant_table_names: the names in order of relevance, each once
RECURSIVE Dedup(_)
Dedup(names) ==
    IF names = << >> THEN << >>
    ELSE LET init == Dedup(SubSeq(names, 1, Len(names) - 1))
             last == names[Len(names)]
         IN IF \E i \in 1..Len(init) : init[i] = last THEN init ELSE Append(init, last)

get_relevant_table_names(search) == Dedup(search_relevant_schema(search))

RECURSIVE FilteredBlocks(_, _)
FilteredBlocks(schema_blocks, relevant_tables) ==
    IF schema_blocks = << >> THEN << >>
    ELSE LET rest == FilteredBlocks(Tail(schema_blocks), relevant_tables)
         \* line 71: f"Table: {t.lower()}" in block.lower()
         IN IF \E i \in 1..Len(relevant_tables) :
                   ContainsSeq(Lower(Head(schema_blocks)),
                               TablePrefix \o Lower(relevant_tables[i]))
            THEN <<Head(schema_blocks)>> \o rest
            ELSE rest

\* the filter without the test of line 74
Filtered_unguarded(schema_info, table_names, relevant_tables, filtered_blocks) ==
    [schema |-> filtered_blocks, tables |-> relevant_tables]

\* lines 56-77: the schema and the table list handed to the provider
Filtered(schema_info, table_names, relevant_tables, filtered_blocks) ==
    IF relevant_tables # << >> /\ filtered_blocks # << >>
    THEN [schema |-> filtered_blocks, tables |-> relevant_tables]
    ELSE [schema |-> schema_info, tables |-> table_names]

\* _set_provider: the provider class of a configured name
ProviderClass(name) ==
    IF name \in {"openai", "anthropic", "ollama"} THEN name ELSE "openai"

\* the signatures of generate_sql: OllamaProvider takes no db_type
accepts_db_type(provider) == provider # "ollama"

SQLGenerationResult(sql_query, confidence) ==
    [kind |-> "SQLGenerationResult", sql_query |-> sql_query, confidence |-> confidence]

\* the provider's generate_sql: its except clause turns every failure of the
\* model call into an empty query of confidence 0
provider_generate_sql(answer) ==
    IF answer.ok THEN SQLGenerationResult(answer.sql_query, answer.confidence)
    ELSE SQLGenerationResult(T_empty, 0)

\* line 79: the call with db_type as fifth positional argument
generate_sql(provider, answer) ==
    IF accepts_db_type(ProviderClass(provider)) THEN provider_generate_sql(answer)
    ELSE [kind |-> "raised", cls |-> "TypeError"]

OrchestratorSettings ==
    { [enforce_read_only |-> FALSE, llm_provider |-> name, enable_pii_masking |-> FALSE] :
        name \in {"openai", "anthropic", "ollama", "local"} }

Searches ==
    {SearchFailed("embedding_failed"), SearchFailed("search_failed"), SearchHits(<< >>)}
    \cup { SearchHits(<<a>>) : a \in {N_users, N_Orders, N_items} }
    \cup { SearchHits(<<a, b>>) : a, b \in {N_users, N_items} }

ModelAnswers ==
    { [ok |-> FALSE, sql_query |-> T_empty, confidence |-> 0] }
    \cup { [ok |-> TRUE, sql_query |-> text, confidence |-> c] :
             text \in CandidateTexts, c \in Confidences }

\* one call of LLMService.generate_sql by the handler; req holds the
\* arguments and what the search did, exec_result what the provider was
\* handed, resp what the call returned or raised
GenerateSql(table_names, search, answer) ==
    LET schema_info == SchemaInfo(table_names)
        relevant_tables == get_relevant_table_names(search)
        filtered_blocks == FilteredBlocks(schema_info, relevant_tables)
    IN /\ pc = "idle"
       /\ req' = [schema_info |-> schema_info, table_names |-> table_names,
                  search |-> search, answer |-> answer]
       /\ exec_result' = Filtered(schema_info, table_names, relevant_tables, filtered_blocks)
       /\ resp' = generate_sql(settings.llm_provider, answer)
       /\ UNCHANGED <<settings, now, ticks, cache, jobs, tasks, executor, nreq, pc, sql,
                      first_error, fixed, healed, execLog, healCalls, cacheSets, audit,
                      doneAt>>

OrchestratorNext ==
    \E table_names \in { <<N_users>>, <<N_users, N_Orders>> }, search \in Searches,
       answer \in ModelAnswers :
        GenerateSql(table_names, search, answer)

OrchestratorInit == settings \in OrchestratorSettings /\ InitRest

OrchestratorSpec == OrchestratorInit /\ [][OrchestratorNext]_vars

(***************************************************************************)
(* The job runner with its callers: requests for background execution,     *)
(* the tasks they spawn, polling with get_job, and time passing.           *)
(***************************************************************************)
\* a caller polls a job; resp is what get_job returned for which id
GetJob(job_id) ==
    /\ pc \in {"idle", "done"}
    /\ resp' = [kind |-> "job", job_id |-> job_id, job |-> get_job(jobs, now, job_id)]
    /\ UNCHANGED <<settings, now, ticks, cache, jobs, tasks, executor, nreq, pc, req, sql,
                   first_error, fixed, exec_result, healed, execLog, healCalls, cacheSets,
                   audit, doneAt>>

JobTick(d) ==
    /\ pc \in {"idle", "done"}
    /\ jobs # << >>
    /\ ticks < MaxTicks
    /\ ticks' = ticks + 1
    /\ now' = now + d
    /\ UNCHANGED <<settings, cache, jobs, tasks, executor, nreq, pc, req, sql, first_error,
                   fixed, exec_result, healed, execLog, healCalls, cacheSets, audit, resp,
                   doneAt>>

JobNext ==
    \/ \E ds \in DataSources, run_async \in BOOLEAN, candidate \in CandidateTexts,
          confidence \in Confidences, audit_ok \in BOOLEAN, prelude \in Preludes :
            Begin(ds, run_async, candidate, confidence, audit_ok, prelude)
    \/ \E up \in BOOLEAN : CacheGetStep(up)
    \/ \E up \in BOOLEAN : CreateJobStep(up)
    \/ \E j \in DOMAIN tasks, out \in EngineOutcomes, up \in BOOLEAN, close_ok \in BOOLEAN :
          BgRun(j, out, up, close_ok)
    \/ \E job_id \in 1..(MaxRequests + 1) : GetJob(job_id)
    \/ \E d \in {job_ttl - 1, job_ttl} : JobTick(d)

JobSpec == ServiceInit /\ [][JobNext]_vars

(***************************************************************************)
(* Properties of the pipeline.                                             *)
(***************************************************************************)
HasEvent(action) == \E i \in 1..Len(audit) : audit[i].action = action

\* the orchestrator produced a candidate and the Safety Gate, enabled for a
\* SQL kind, rejects it
GateRejects ==
    /\ req.candidate # T_empty
    /\ req.type # "mongodb"
    /\ settings.enforce_read_only
    /\ ~is_safe_sql(req.candidate)

PolicyDenial == HttpError(403, "Security Policy Violation: Only SELECT queries are allowed.")

AllCallsFailed == \A i \in 1..Len(execLog) : ~execLog[i].ok

\* C1: with read-only enforcement enabled and a SQL kind, a candidate that
\* is_safe_sql rejects is never passed to execute_query: the request makes
\* no synchronous run, starts no background job, calls no healer, and ends
\* with the policy denial (HTTP 403).
C1_RejectedNeverExecuted ==
    GateRejects =>
        /\ execLog = << >>
        /\ healCalls = 0
        /\ req.id \notin DOMAIN jobs
        /\ req.id \notin DOMAIN tasks
        /\ pc = "done"
        /\ resp = PolicyDenial

C1_Witness == GateRejects /\ pc = "done" /\ resp = PolicyDenial /\ req.candidate = T_drop

\* C2: with read-only enforcement enabled and a SQL kind, every text the
\* healed retry passes to execute_query is one that is_safe_sql accepts.
C2_HealedRevalidated ==
    (settings.enforce_read_only /\ req.type # "mongodb") =>
        \A i \in 1..Len(execLog) :
            execLog[i].path = "retry" => is_safe_sql(execLog[i].sql)

\* C3 as claimed: a request all of whose execution attempts failed made
\* exactly 2 attempts, whatever the healer returned.
C3_ExactlyTwoAttempts ==
    (pc = "done" /\ execLog # << >> /\ AllCallsFailed) => Len(execLog) = 2

\* C3: a request makes at most 2 execution attempts; when all its attempts
\* failed it made exactly 2 if the healer returned a non-empty text that
\* differs from the failing one, and exactly 1 otherwise.
C3_AtMostTwoAttempts ==
    /\ Len(execLog) <= 2
    /\ (pc = "done" /\ execLog # << >> /\ AllCallsFailed) =>
          Len(execLog) = IF fixed # T_empty /\ fixed # req.candidate THEN 2 ELSE 1

C3_Witness ==
    /\ pc = "done"
    /\ Len(execLog) = 2
    /\ AllCallsFailed
    /\ execLog[1].dispatched
    /\ execLog[2].dispatched

\* C4: for every backend kind, a candidate that reaches the confidence gate
\* with confidence equal to the threshold goes on to the cache lookup, and
\* one below the threshold ends in a response with requires_confirmation,
\* zero rows and zero execute_query calls.
C4_ConfidenceGate ==
    (req.candidate # T_empty /\ ~GateRejects) =>
        IF req.confidence < confidence_threshold
        THEN /\ pc = "done"
             /\ resp.kind = "response"
             /\ resp.requires_confirmation
             /\ resp.results = << >>
             /\ execLog = << >>
        ELSE HasEvent("query_execution")

\* C5: a request whose cache lookup hit returns the entry with is_cached set,
\* after zero execute_query calls and zero healer calls; a response built
\* from a live execution has is_cached unset.
C5_CacheHitBypasses ==
    /\ HasEvent("query_cache_hit") =>
          /\ pc = "done"
          /\ resp.kind = "response"
          /\ resp.is_cached
          /\ execLog = << >>
          /\ healCalls = 0
          /\ generate_key(req.ds, req.candidate) \in DOMAIN cache
          /\ resp = [json_loads(cache[generate_key(req.ds, req.candidate)].val) EXCEPT
                        !.is_cached = TRUE, !.audit_log_id = resp.audit_log_id]
    /\ (pc = "done" /\ execLog # << >> /\ resp.kind = "response") => ~resp.is_cached

C5_Witness ==
    /\ HasEvent("query_cache_hit")
    /\ pc = "done"
    /\ resp.kind = "response"
    /\ resp.is_cached
    /\ resp.results # << >>

\* C6: after a synchronous call has returned the rows of a live execution,
\* and until the TTL has run out, the lookup of a repeated call (same data
\* source, same candidate) hits and yields the rows of the first call.
C6_RepeatIsCached ==
    (/\ pc = "done"
     /\ resp.kind = "response"
     /\ execLog # << >>
     /\ now < doneAt + default_ttl) =>
        LET again == get_query_result(cache, now, req.ds, req.candidate, TRUE)
        IN again # NoResp /\ again.results = resp.results

\* C8: a candidate blocked as a safety violation yields the policy denial
\* with no rows, no Result Cache write and the audit call
\* security_violation_blocked; a request that ends in an execution error
\* has neither that outcome nor that audit call.
C8_ViolationDistinct ==
    /\ GateRejects =>
          /\ pc = "done"
          /\ resp = PolicyDenial
          /\ cacheSets = << >>
          /\ HasEvent("security_violation_blocked")
    /\ (pc = "done" /\ execLog # << >> /\ ~execLog[Len(execLog)].ok) =>
          /\ resp.kind = "error"
          /\ resp.code = 400
          /\ ~HasEvent("security_violation_blocked")

C8_Witness ==
    /\ GateRejects
    /\ req.candidate = T_drop
    /\ HasEvent("security_violation_blocked")
    /\ cacheSets = << >>

(***************************************************************************)
(* Properties of the cache service and of the connectors.                  *)
(***************************************************************************)
\* C7: the result of the latest set_query_result call for a key, made while
\* redis answers, is what get_query_result returns until the ttl of that
\* call has elapsed, and the key is absent afterwards, whatever payload and
\* ttl the caller passed.
C7_CacheRoundTrip ==
    \A i \in 1..Len(cacheSets) :
        LET c == cacheSets[i]
            latest == \A j \in (i+1)..Len(cacheSets) :
                          generate_key(cacheSets[j].ds, cacheSets[j].sql)
                              # generate_key(c.ds, c.sql)
            got == get_query_result(cache, now, c.ds, c.sql, TRUE)
        IN (pc = "idle" /\ c.up /\ latest) =>
              \* the ttl asked for: the argument, or the default when none is given
              IF now < c.at + (IF c.ttl.given THEN c.ttl.v ELSE default_ttl)
              THEN got = c.result
              ELSE got = NoResp

\* C9: whatever the connector kind, a text a connector hands to its engine
\* is a single read-only statement (for the document store, a find command).
C9_OnlySingleReadOnlyDispatched ==
    \A i \in 1..Len(execLog) :
        (execLog[i].path \in ConnectorKinds /\ execLog[i].dispatched) =>
            IF execLog[i].path = "mongodb" THEN MongoCommand(execLog[i].sql)
            ELSE /\ Len(Parse(execLog[i].sql)) = 1
                 /\ get_type(Parse(execLog[i].sql)[1]) = "SELECT"

\* C10: whatever the connector kind, a dispatched call has set a limit on
\* the engine, and a statement that would run longer than the configured
\* timeout ends in QueryTimeoutError.
C10_EngineTimeout ==
    \A i \in 1..Len(execLog) :
        (execLog[i].path \in ConnectorKinds /\ execLog[i].dispatched) =>
            /\ execLog[i].limit # "none"
            /\ (execLog[i].run.fail = "none" /\ execLog[i].run.secs > query_timeout_seconds)
                  => execLog[i].err.cls = "QueryTimeoutError"

(***************************************************************************)
(* Properties of the background job runner.                                *)
(***************************************************************************)
\* C11: once a background task has run with redis answering, the stored
\* job has status completed and a result holding the query text, the rows
\* and the row count if execute_query returned, and status failed with the
\* error of execute_query if it raised.
C11_JobFinalState ==
    \A j \in DOMAIN tasks :
        (tasks[j].state = "ran" /\ tasks[j].up) =>
            IF tasks[j].ok
            THEN /\ jobs[j].status = "completed"
                 /\ jobs[j].result # NoResp
                 /\ jobs[j].result.sql_query = tasks[j].sql
                 /\ jobs[j].result.results = tasks[j].rows
                 /\ jobs[j].result.row_count = Len(tasks[j].rows)
            ELSE /\ jobs[j].status = "failed"
                 /\ jobs[j].error = tasks[j].err

\* C12: the statuses stored for a job are processing, then at most one of
\* completed and failed, and the stored job_info carries the last of them.
C12_JobStatusMoves ==
    \A j \in DOMAIN tasks :
        LET w == tasks[j].writes
        IN /\ w[1] = "processing"
           /\ Len(w) <= 2
           /\ Len(w) = 2 => w[2] \in {"completed", "failed"}
           /\ jobs[j].status = w[Len(w)]

C12_Witness ==
    \E j \in DOMAIN tasks :
        /\ tasks[j].state = "ran"
        /\ tasks[j].ok
        /\ tasks[j].executor = "open"
        /\ tasks[j].writes = <<"processing", "failed">>

(***************************************************************************)
(* Properties of the chart recommender.                                    *)
(***************************************************************************)
Range(f) == {f[i] : i \in DOMAIN f}

\* C13: for a non-empty result set with at least 2 columns the chart type
\* returned is one of bar, line, donut, area, table and every column role
\* assigned is a column of the input.
C13_ChartWellFormed ==
    (/\ resp.kind = "chart"
     /\ exec_result.rows.rows # << >>
     /\ Len(exec_result.rows.cols) >= 2) =>
        /\ resp.chart_type \in {"bar", "line", "donut", "area", "table"}
        /\ \A role \in {resp.x_column, resp.y_column, resp.category_column, resp.value_column} :
              role = NoCol \/ role \in Range(exec_result.rows.cols)

C13_Witness ==
    /\ resp.kind = "chart"
    /\ Len(exec_result.rows.cols) = 3
    /\ resp.chart_type = "line"
    /\ resp.x_column = N_month
    /\ resp.y_column = N_revenue

RECURSIVE NumericTotal(_, _, _)
\* the sum of the numeric cells of a column, whatever their numeric type
NumericTotal(rows, col, i) ==
    IF i > Len(rows) THEN 0
    ELSE (IF rows[i][col].t \in {"int", "float", "Decimal"} THEN rows[i][col].v ELSE 0)
         + NumericTotal(rows, col, i + 1)

\* C15: for a result with exactly 2 columns, one of numbers and one of
\* strings, the recommendation is donut (category = string column, value =
\* number column) when the numbers sum to about 100 or about 1, otherwise
\* area (x, y) when the name of the string column suggests time, otherwise
\* bar (x, y), in particular for the names category and region.
C15_TwoColumnRule ==
    LET rs == exec_result.rows
    IN (/\ resp.kind = "chart"
        /\ Len(rs.cols) = 2
        /\ \E c \in Range(rs.cols) : rs.rows[1][c].t = "str"
        /\ \E c \in Range(rs.cols) : rs.rows[1][c].t \in {"int", "float", "Decimal"}) =>
          LET text == CHOOSE c \in Range(rs.cols) : rs.rows[1][c].t = "str"
              num == CHOOSE c \in Range(rs.cols) : rs.rows[1][c].t \in {"int", "float", "Decimal"}
              timelike == \E keyword \in time_keywords : ContainsSeq(Lower(text), keyword)
          IN IF LooksLikeProportions(NumericTotal(rs.rows, num, 1))
             THEN resp = ChartRecommendation("donut", NoCol, NoCol, text, num)
             ELSE IF timelike /\ text \notin {N_category, N_region}
                  THEN resp = ChartRecommendation("area", text, num, NoCol, NoCol)
                  ELSE resp = ChartRecommendation("bar", text, num, NoCol, NoCol)

(***************************************************************************)
(* Properties of the validators.                                           *)
(***************************************************************************)
\* C16: validate_sql returns (True, "") exactly when the text parses to one
\* statement of type SELECT; for more than one statement it returns False
\* with the message about multiple statements, whatever the first statement
\* is, and for one statement that is not a SELECT it returns False with the
\* message that only SELECT is allowed.
C16_ValidateSql ==
    resp.kind = "validation" =>
        LET parsed == Parse(sql)
        IN /\ resp.valid <=> (Len(parsed) = 1 /\ get_type(parsed[1]) = "SELECT")
           /\ resp.valid => resp.msg = ""
           /\ Len(parsed) > 1 => resp = Validation(FALSE, "Multiple statements are not allowed")
           /\ (Len(parsed) = 1 /\ get_type(parsed[1]) # "SELECT") =>
                 resp = Validation(FALSE, "Only SELECT statements are allowed")

C16_Witness ==
    /\ resp.kind = "validation"
    /\ sql = T_twosel
    /\ ~resp.valid
    /\ resp.msg = "Multiple statements are not allowed"

\* C17: a text is_safe_sql accepts is exactly one statement, of type SELECT,
\* holding no denylisted keyword.
C17_SafeOnlySingleSelect ==
    (resp.kind = "safety" /\ resp.safe) =>
        /\ Len(Parse(sql)) = 1
        /\ get_type(Parse(sql)[1]) = "SELECT"
        /\ \A i \in 1..Len(sql) : Upper(sql)[i] \notin forbidden

(***************************************************************************)
(* Properties of healing.                                                  *)
(***************************************************************************)
\* C18: when the first execution fails with a connectivity error the healer
\* is not called and no second execution is made.
C18_ConnectivityNotHealed ==
    first_error.cls = "ConnectionError" => (healCalls = 0 /\ Len(execLog) = 1)

\* C19: the healer is called only after the first attempt was dispatched to
\* the backend and failed there; after a refusal by the executor's own check
\* before dispatch the healer is not called and no retry is executed.
C19_RefusalNotHealed ==
    /\ healCalls > 0 => (execLog # << >> /\ execLog[1].dispatched /\ ~execLog[1].ok)
    /\ (execLog # << >> /\ ~execLog[1].ok /\ ~execLog[1].dispatched) =>
          (healCalls = 0 /\ Len(execLog) = 1)

\* C20: when the first execution and the healed retry both fail, the request
\* ends with an error that reports the error of the first attempt and the
\* error of the retry.
C20_BothErrorsReported ==
    (pc = "done" /\ Len(execLog) = 2 /\ AllCallsFailed) =>
        /\ resp.kind = "error"
        /\ execLog[1].err \in Range(resp.errors)
        /\ execLog[2].err \in Range(resp.errors)

(***************************************************************************)
(* Properties of the gates' order.                                         *)
(***************************************************************************)
\* C21: a candidate the orchestrator produced with a confidence below the
\* threshold ends in the low-confidence response (requires_confirmation set,
\* no rows, nothing executed), whatever the read-only check says of its
\* text.  Stated for the SQL kinds and the provider that has refine_query.
C21_ConfidenceBeforeSafety ==
    (/\ pc = "done"
     /\ req.candidate # T_empty
     /\ req.type # "mongodb"
     /\ settings.llm_provider = "openai"
     /\ below_threshold(req.confidence)) =>
        /\ resp = LowConfidenceResponse(req.candidate, req.confidence)
        /\ execLog = << >>

(***************************************************************************)
(* Properties of failure handling in the background task and the stores.   *)
(***************************************************************************)
\* C22: a background job whose execution failed is marked failed only after
\* the healer was called and a retry attempted, as on the synchronous path.
C22_JobFailureHealedFirst ==
    \A j \in DOMAIN tasks :
        (tasks[j].state = "ran" /\ ~tasks[j].ok /\ jobs[j].status = "failed") =>
            tasks[j].healCalls >= 1

\* C23: when the store refuses the task's writes of job state, the task
\* ends without an unhandled exception, the job keeps the last state that
\* was stored, and the connector is closed.
C23_WriteFailureContained ==
    \A j \in DOMAIN tasks :
        (tasks[j].state = "ran" /\ ~tasks[j].up) =>
            /\ ~tasks[j].unhandled
            /\ jobs[j].status = "processing"
            /\ tasks[j].executor = "closed"

\* C24: the cache lookup never ends the request in an error: it ends in the
\* cached response or the handler goes on to execute (also when the store
\* raised, which is how the handler goes on past a live entry); and a request
\* whose store call raised after a successful execution returns its
\* successful response.
C24_CacheFailuresTolerated ==
    /\ [][pc = "cache_get" =>
            \/ pc' \in {"exec", "create_job"} /\ resp' = NoResp
            \/ pc' = "done" /\ resp'.kind = "response" /\ resp'.is_cached]_vars
    /\ [](\A i \in 1..Len(cacheSets) :
            (pc = "done" /\ ~cacheSets[i].up) =>
                (resp.kind = "response" /\ resp = cacheSets[i].result))

\* the lookup raised on a live entry and the query was executed; the store
\* then raised on set and the response is the successful one
C24_Witness ==
    /\ pc = "done"
    /\ generate_key(req.ds, sql) \in DOMAIN cache
    /\ now < cache[generate_key(req.ds, sql)].exp
    /\ Len(execLog) = 1
    /\ execLog[1].ok
    /\ cacheSets # << >>
    /\ ~cacheSets[1].up
    /\ resp.kind = "response"
    /\ ~resp.is_cached

(***************************************************************************)
(* Properties of the orchestrator.                                         *)
(***************************************************************************)
\* C25: when embedding or vector search failed, or no block of the schema
\* description was found for the tables the search returned, the provider is
\* handed the complete schema description and the complete table list.
C25_FilterFallsBack ==
    (/\ resp # NoResp
     /\ \/ req.search.kind # "hits"
        \/ FilteredBlocks(req.schema_info, get_relevant_table_names(req.search)) = << >>) =>
        /\ exec_result.schema = req.schema_info
        /\ exec_result.tables = req.table_names

\* the search returned a table that is not in the schema description
C25_Witness ==
    /\ resp # NoResp
    /\ req.search = SearchHits(<<N_items>>)
    /\ exec_result.schema = SchemaInfo(<<N_users, N_Orders>>)
    /\ exec_result.tables = <<N_users, N_Orders>>

\* C26: whatever provider is configured, generate_sql returns a
\* SQLGenerationResult, and a failure of the provider is an empty query of
\* confidence 0, never an exception.
C26_ProviderContract ==
    resp # NoResp =>
        /\ resp.kind = "SQLGenerationResult"
        /\ ~req.answer.ok => (resp.sql_query = T_empty /\ resp.confidence = 0)

C28_ExecutorClosed ==
    (pc = "done" /\ executor # "none") =>
        IF req.id \in DOMAIN tasks
        THEN tasks[req.id].state = "ran" => tasks[req.id].executor = "closed"
        ELSE executor = "closed"

\* C29: a request calls set_query_result at most once, and only a
\* synchronous request that was not denied by the read-only check, was not
\* below the confidence threshold, and whose last execution succeeded; the
\* text the key is made of is the text the entry stores in sql_query, the
\* healed one after healing and the candidate otherwise; and the Result Cache
\* changes in no other step than that call.
C29_CacheWrittenOnlyOnSuccess ==
    /\ [](/\ Len(cacheSets) <= 1
          /\ \A i \in 1..Len(cacheSets) :
                /\ ~req.run_async
                /\ ~policy_denied(req.type, settings.enforce_read_only, req.candidate)
                /\ ~below_threshold(req.confidence)
                /\ execLog # << >>
                /\ execLog[Len(execLog)].ok
                /\ cacheSets[i].sql = cacheSets[i].result.sql_query
                /\ cacheSets[i].sql = IF healed THEN fixed ELSE req.candidate
                /\ ~cacheSets[i].result.is_cached)
    /\ [][\A k \in {k \in DOMAIN cache' : k \notin DOMAIN cache \/ cache'[k] # cache[k]} :
            /\ pc = "post"
            /\ cacheSets' # << >>
            /\ k = <<req.ds, Strip(cache'[k].val.json.sql_query)>>
            /\ cache'[k].val.json = resp']_vars

\* a healed request stored its response under the healed text
C29_Witness ==
    /\ pc = "done"
    /\ healed
    /\ cacheSets # << >>
    /\ cacheSets[1].written
    /\ <<req.ds, Strip(fixed)>> \in DOMAIN cache
    /\ cache[<<req.ds, Strip(fixed)>>].val.json.sql_query = fixed
    /\ fixed # req.candidate

\* C30: the response of a request that executed its query has is_healed
\* set exactly when its first execution failed and the retry of the healed
\* text succeeded; it then carries the first error as original_error and the
\* healed text as sql_query, and otherwise no original_error and the
\* candidate of the orchestrator as sql_query.
C30_HealedFlagExact ==
    (pc = "done" /\ resp.kind = "response" /\ execLog # << >>) =>
        LET retried == Len(execLog) = 2 /\ ~execLog[1].ok /\ execLog[2].ok
        IN /\ resp.is_healed <=> retried
           /\ IF retried
              THEN /\ resp.original_error = execLog[1].err
                   /\ resp.sql_query = execLog[2].sql
                   /\ resp.sql_query # req.candidate
              ELSE /\ resp.original_error = NoError
                   /\ resp.sql_query = req.candidate

C30_Witness ==
    /\ pc = "done"
    /\ resp.kind = "response"
    /\ resp.is_healed
    /\ Len(execLog) = 2
    /\ resp.original_error = execLog[1].err
    /\ resp.original_error # NoError
    /\ resp.sql_query = fixed

====
